---- MODULE Spec2Model ----
(***************************************************************************)
(* A model of src/src/filter.c (Fastq-Filterer): the paired FASTQ filter.  *)
(*                                                                         *)
(* A C string is a sequence of one-character strings; a line buffer is a   *)
(* record [s, cap]: the string it holds and the bytes allocated for it.    *)
(* A gzFile is [open, data, pos]: whether gzopen succeeded, the bytes of   *)
(* the (decompressed) file and the read position; a FILE opened for        *)
(* writing is [open, data].  A char* that may be NULL is [null, s].        *)
(***************************************************************************)
EXTENDS Integers, Sequences, FiniteSets, TLC

\* filter.c:19,20.  The two buffer sizes are scaled down (2048 and 4096 in
\* the source) so that lines longer than a chunk or than the fixed buffer are
\* within reach of the model checker; every length in the model is on this
\* scale.
block_size == 3
unsafe_block_size == 13

NL == "\n"
COLON == ":"
COMMA == ","

Min(a, b) == IF a < b THEN a ELSE b

Take(s, n) == SubSeq(s, 1, Min(n, Len(s)))
Drop(s, n) == SubSeq(s, n + 1, Len(s))

RECURSIVE Rep(_, _)
Rep(c, n) == IF n <= 0 THEN <<>> ELSE <<c>> \o Rep(c, n - 1)

RECURSIVE Cat(_)
Cat(ss) == IF ss = <<>> THEN <<>> ELSE Head(ss) \o Cat(Tail(ss))

(***************************************************************************)
(* Op(a, b, c) with the arguments evaluated once, before the call: TLC     *)
(* passes arguments unevaluated, and a loop written as a recursion would   *)
(* evaluate its whole history again at every use of a parameter.           *)
(***************************************************************************)
Strict1(Op(_), a) ==
    CHOOSE r \in { Op(x) : x \in {a} } : TRUE

Strict2(Op(_, _), a, b) ==
    CHOOSE r \in { Op(x, y) : x \in {a}, y \in {b} } : TRUE

Strict3(Op(_, _, _), a, b, c) ==
    CHOOSE r \in { Op(x, y, z) : x \in {a}, y \in {b}, z \in {c} } : TRUE

(***************************************************************************)
(* zlib's gzgets(f, buf, n): at most n - 1 characters, stopping after a    *)
(* newline; NULL (ok = FALSE) when f is NULL or nothing is left to read.   *)
(***************************************************************************)
gzgets_count(f, n) ==
    LET lim == Min(n - 1, Len(f.data) - f.pos)
    IN  IF \E i \in 1..lim : f.data[f.pos + i] = NL
        THEN CHOOSE i \in 1..lim :
                 /\ f.data[f.pos + i] = NL
                 /\ \A j \in 1..(i - 1) : f.data[f.pos + j] # NL
        ELSE lim

gzgets_read(f, k) ==
    [ok |-> TRUE, s |-> SubSeq(f.data, f.pos + 1, f.pos + k),
     f |-> [f EXCEPT !.pos = @ + k]]

gzgets(f, n) ==
    IF ~f.open \/ f.pos >= Len(f.data)
    THEN [ok |-> FALSE, s |-> <<>>, f |-> f]
    ELSE Strict2(gzgets_read, f, gzgets_count(f, n))

\* filter.c:52-57: g is what gzgets returned
unsafe_line(g) == [line |-> [s |-> g.s, cap |-> unsafe_block_size], f |-> g.f]

readln_unsafe(f) == Strict1(unsafe_line, gzgets(f, unsafe_block_size))

\* filter.c:74-87, one pass of the do-while per call: _block_size is bs on
\* entry, line is the text accumulated so far.
RECURSIVE readln_loop(_, _, _)
\* readln returning an empty string, not the text accumulated, when gzgets fails
readln_pass_forgets(line, nbs, g) ==
    IF ~g.ok
    THEN [line |-> [s |-> <<>>, cap |-> nbs + 1], f |-> g.f]
    ELSE IF g.s[Len(g.s)] # NL
         THEN Strict3(readln_loop, g.f, line \o g.s, nbs)
         ELSE [line |-> [s |-> line \o g.s, cap |-> nbs + 1], f |-> g.f]

readln_pass(line, nbs, g) ==
    IF ~g.ok
    THEN [line |-> [s |-> line, cap |-> nbs + 1], f |-> g.f]
    ELSE IF g.s[Len(g.s)] # NL
         THEN Strict3(readln_loop, g.f, line \o g.s, nbs)
         ELSE [line |-> [s |-> line \o g.s, cap |-> nbs + 1], f |-> g.f]

readln_loop(f, line, bs) ==
    Strict3(readln_pass, line, bs + block_size, gzgets(f, block_size))

\* filter.c:60-90
readln(f) == readln_loop(f, <<>>, block_size)


(***************************************************************************)
(* The program's state.                                                    *)
(***************************************************************************)
VARIABLES
    fs,                    \* the files behind r1i_path, r2i_path, r1o_path, r2o_path
    threshold,             \* filter.c:22
    quiet,                 \* filter.c:23
    read_func,             \* filter.c:93
    check_func,            \* filter.c:145
    tiles_to_remove,       \* filter.c:29, the entries before the NULL terminator
    include_func_r1,       \* filter.c:176
    include_func_r2,       \* filter.c:177
    trim_r1, trim_r2,      \* filter.c:27
    read_pairs_checked,    \* filter.c:26
    read_pairs_removed,
    read_pairs_remaining,
    r1i, r2i, r1o, r2o,    \* filter.c:191-194
    r1, r2,                \* filter.c:196-204, the eight line buffers as last read
    logged,                \* the line offsets _log has printed (filter.c:220)
    ret_val,               \* filter.c:218, -1 until filter_fastqs returns
    exit_status,           \* filter.c:447, -1 until main returns
    pc,                    \* "main", "loop", "returned", "exited" or "crashed"
    first_run              \* the counters of the run that wrote the input files,
                           \* when they are the output files of an earlier run

options == <<threshold, quiet, read_func, check_func, tiles_to_remove,
             include_func_r1, include_func_r2, trim_r1, trim_r2>>
config == <<fs, first_run, options>>
counters == <<read_pairs_checked, read_pairs_removed, read_pairs_remaining>>
streams == <<r1i, r2i, r1o, r2o>>
vars == <<config, counters, streams, r1, r2, logged, ret_val, exit_status, pc>>

NULLSTR == [null |-> TRUE, s |-> <<>>]
Ptr(s) == [null |-> FALSE, s |-> s]
NoRun == [done |-> FALSE, removed |-> 0, remaining |-> 0]
EmptyLine == [s |-> <<>>, cap |-> 0]
NoRecord == [header |-> EmptyLine, seq |-> EmptyLine,
             strand |-> EmptyLine, qual |-> EmptyLine]

(***************************************************************************)
(* strtok(p, delim) with one delimiter: p is what is left of the string    *)
(* being scanned.  Leading delimiters are skipped, so an empty field is    *)
(* never a token; NULL when nothing but delimiters is left.                *)
(***************************************************************************)
RECURSIVE SpanLen(_, _, _)
SpanLen(s, d, isDelim) ==
    IF s = <<>> \/ ((s[1] = d) # isDelim) THEN 0
    ELSE 1 + SpanLen(Tail(s), d, isDelim)

strtok(p, d) ==
    LET q == Drop(p, SpanLen(p, d, TRUE))
        n == SpanLen(q, d, FALSE)
    IN  IF q = <<>>
        THEN [tok |-> NULLSTR, rest |-> <<>>]
        ELSE [tok |-> Ptr(Take(q, n)), rest |-> Drop(q, n + 1)]

\* filter.c:96-104: the first strtok call and i further ones
RECURSIVE get_tile_walk(_, _)
get_tile_walk(fastq_header, i) ==
    IF i = 0 THEN strtok(fastq_header, COLON)
    ELSE strtok(get_tile_walk(fastq_header, i - 1).rest, COLON)

get_tile_id(fastq_header) == get_tile_walk(fastq_header, 4).tok

\* filter.c:305-311: the fields of rm_tiles, in order
RECURSIVE tile_fields(_)
tile_fields(p) ==
    LET t == strtok(p, COMMA)
    IN  IF t.tok.null THEN <<>> ELSE <<t.tok.s>> \o tile_fields(t.rest)

\* filter.c:287-314
build_remove_tiles(remove_tiles) ==
    IF remove_tiles.null THEN <<>> ELSE tile_fields(remove_tiles.s)

(***************************************************************************)
(* The inclusion predicates.  threshold is never negative in the model,    *)
(* so the conversion of threshold to size_t in the comparison is exact.    *)
(***************************************************************************)
\* filter.c:108-114
std_check_read(a, b) ==
    Len(a.seq.s) > threshold /\ Len(b.seq.s) > threshold

\* filter.c:133: strcmp(comp, tile_id) with tile_id NULL is undefined
tile_check_undefined(a, b) ==
    /\ std_check_read(a, b)
    /\ get_tile_id(a.header.s).null
    /\ tiles_to_remove # <<>>

\* tile_check_read answering false for a header without a tile id
tile_check_read_needs_tile(a, b) ==
    IF ~std_check_read(a, b) THEN FALSE
    ELSE LET tile_id == get_tile_id(a.header.s)
         IN  /\ ~tile_id.null
             /\ ~\E i \in 1..Len(tiles_to_remove) : tiles_to_remove[i] = tile_id.s

\* filter.c:117-142, where it is defined
tile_check_read(a, b) ==
    IF ~std_check_read(a, b) THEN FALSE
    ELSE LET tile_id == get_tile_id(a.header.s)
         IN  ~\E i \in 1..Len(tiles_to_remove) : tiles_to_remove[i] = tile_id.s

\* filter.c:241: what check_func can return.  Where the call is undefined
\* and does not crash, strcmp has compared against whatever is at address
\* 0, and either answer is possible.
check_results(a, b) ==
    IF check_func = "std_check_read" THEN {std_check_read(a, b)}
    ELSE IF tile_check_undefined(a, b) THEN BOOLEAN
    ELSE {tile_check_read(a, b)}

(***************************************************************************)
(* The transformations.                                                    *)
(***************************************************************************)
\* std_include without fputs(strand, outfile)
std_include_no_strand(rec) == rec.header.s \o rec.seq.s \o rec.qual.s

\* filter.c:148-153: the bytes handed to fputs
std_include(rec) == rec.header.s \o rec.seq.s \o rec.strand.s \o rec.qual.s

\* filter.c:160-161 on a buffer holding q: the two stores land past the end
\* of the string when it is shorter than trim_len and then leave it as it is
poke_newline(q, trim_len) ==
    IF Len(q) >= trim_len THEN Take(q, trim_len) \o <<NL>> ELSE q

\* filter.c:156-162: the record as std_include is handed it
trim_record(rec, trim_len) ==
    IF Len(rec.seq.s) > trim_len + 1
    THEN [rec EXCEPT !.seq.s = Take(@, trim_len) \o <<NL>>,
                     !.qual.s = poke_newline(@, trim_len)]
    ELSE rec

\* filter.c:156-164
trim_include(rec, trim_len) == std_include(trim_record(rec, trim_len))

\* filter.c:161: qual[trim_len + 1] lies outside the buffer readln allocated
trim_out_of_bounds(rec, trim_len) ==
    /\ Len(rec.seq.s) > trim_len + 1
    /\ trim_len + 1 >= rec.qual.cap

\* filter.c:246: the bytes include_func_r1 writes
include_r1(rec) ==
    IF include_func_r1 = "std_include" THEN std_include(rec)
    ELSE trim_include(rec, trim_r1)

\* filter.c:247
include_r2(rec) ==
    IF include_func_r2 = "std_include" THEN std_include(rec)
    ELSE trim_include(rec, trim_r2)

overflow_r1(rec) ==
    include_func_r1 = "trim_include_r1" /\ trim_out_of_bounds(rec, trim_r1)

overflow_r2(rec) ==
    include_func_r2 = "trim_include_r2" /\ trim_out_of_bounds(rec, trim_r2)

(***************************************************************************)
(* The store past the quality buffer lands somewhere in the heap: in free  *)
(* memory or behind the terminator of a string, where nothing shows, or    *)
(* inside one of the other line buffers, all eight of which are live when  *)
(* the include functions run.                                              *)
(***************************************************************************)
Fields == {"header", "seq", "strand", "qual"}

\* what the two stores of filter.c:160-161 can leave in a buffer they land in
clobbered(line) ==
    {line} \cup { [line EXCEPT !.s = Take(@, k) \o <<NL>>] :
                     k \in {j \in 0..Len(line.s) : j + 1 < line.cap} }

\* a record after the stores landed in one of its buffers named by fields,
\* or in none
stray(rec, fields) ==
    {rec} \cup UNION { {[rec EXCEPT ![f] = v] : v \in clobbered(rec[f])} : f \in fields }

\* filter.c:246: the bytes written to r1o, and mate 2's buffers afterwards
include_r1_outcomes(a, b) ==
    IF ~overflow_r1(a) THEN {<<include_r1(a), b>>}
    ELSE {<<std_include(x), b>> :
              x \in stray(trim_record(a, trim_r1), {"header", "seq", "strand"})}
         \cup {<<trim_include(a, trim_r1), y>> : y \in stray(b, Fields)}

\* filter.c:247: the bytes written to r2o
include_r2_outcomes(b) ==
    IF ~overflow_r2(b) THEN {include_r2(b)}
    ELSE {std_include(x) :
              x \in stray(trim_record(b, trim_r2), {"header", "seq", "strand"})}

\* filter.c:246-247: the bytes written to r1o and to r2o
include_outcomes(a, b) ==
    UNION { {<<o[1], w>> : w \in include_r2_outcomes(o[2])} :
              o \in include_r1_outcomes(a, b) }

\* fputs(s, out): appends to an open stream.  On a NULL stream the call is
\* undefined; where it does not crash it writes nothing.
fputs(bytes, out) ==
    IF out.open THEN [out EXCEPT !.data = @ \o bytes] ELSE out

(***************************************************************************)
(* Reading one record (filter.c:207-210, 212-215).                         *)
(***************************************************************************)
read_line(f) ==
    IF read_func = "readln_unsafe" THEN readln_unsafe(f) ELSE readln(f)

\* filter.c:207-210: the calls of read_func on one stream, one after the
\* other; lines are the buffers returned so far
RECURSIVE read_lines(_, _)
read_next(lines, r) ==
    IF Len(lines) = 3
    THEN [rec |-> [header |-> lines[1], seq |-> lines[2],
                   strand |-> lines[3], qual |-> r.line],
          f |-> r.f]
    ELSE Strict2(read_lines, r.f, Append(lines, r.line))

read_lines(f, lines) == Strict2(read_next, lines, read_line(f))

read_record(f) == read_lines(f, <<>>)

\* *r1_header, the first character of a buffer ("" stands for '\0')
first_char(line) == IF line.s = <<>> THEN "" ELSE line.s[1]


(***************************************************************************)
(* filter_fastqs and main.                                                 *)
(***************************************************************************)
\* filter.c:191-194.  gzopen and fopen return NULL for a path that cannot
\* be opened; nothing checks for it.
OpenStreams ==
    /\ pc = "main"
    /\ r1i' = [open |-> fs.r1i.readable, data |-> fs.r1i.data, pos |-> 0]
    /\ r2i' = [open |-> fs.r2i.readable, data |-> fs.r2i.data, pos |-> 0]
    /\ r1o' = [open |-> fs.r1o_writable, data |-> <<>>]
    /\ r2o' = [open |-> fs.r2o_writable, data |-> <<>>]
    /\ pc' = "loop"
    /\ UNCHANGED <<config, counters, r1, r2, logged, ret_val, exit_status>>

\* filter.c:217: a and b are what reading a record from r1i and from r2i
\* returned
AtEnd(a, b) == first_char(a.rec.header) = "" \/ first_char(b.rec.header) = ""

\* filter.c:219
Differ(a, b) == first_char(a.rec.header) # first_char(b.rec.header)

\* filter.c:220: _log prints unless quiet (filter.c:33)
LogDesync(a, b) ==
    IF Differ(a, b) /\ ~quiet THEN Append(logged, read_pairs_checked * 4) ELSE logged

\* filter.c:217-239.  fclose(NULL) is undefined; here it has not crashed.
Finish(a, b) ==
    /\ AtEnd(a, b)
    /\ r1' = a.rec
    /\ r2' = b.rec
    /\ logged' = LogDesync(a, b)
    /\ ret_val' = IF Differ(a, b) THEN 1 ELSE 0
    /\ r1i' = [a.f EXCEPT !.open = FALSE]
    /\ r2i' = [b.f EXCEPT !.open = FALSE]
    /\ r1o' = [r1o EXCEPT !.open = FALSE]
    /\ r2o' = [r2o EXCEPT !.open = FALSE]
    /\ pc' = "returned"
    /\ UNCHANGED <<config, counters, exit_status>>

\* filter.c:241-247, 254-262.  An undefined call made on the way (fputs on
\* a NULL stream, the store past the quality buffer) has not crashed; the
\* store has landed wherever include_outcomes lets it.
Include(a, b) ==
    /\ ~AtEnd(a, b)
    /\ TRUE \in check_results(a.rec, b.rec)
    /\ r1' = a.rec
    /\ r2' = b.rec
    /\ read_pairs_checked' = read_pairs_checked + 1
    /\ read_pairs_remaining' = read_pairs_remaining + 1
    /\ \E w \in include_outcomes(a.rec, b.rec) :
           /\ r1o' = fputs(w[1], r1o)
           /\ r2o' = fputs(w[2], r2o)
    /\ r1i' = a.f
    /\ r2i' = b.f
    /\ UNCHANGED <<config, read_pairs_removed, logged, ret_val, exit_status, pc>>

\* the else branch without read_pairs_removed++
Exclude_uncounted(a, b) ==
    /\ ~AtEnd(a, b)
    /\ FALSE \in check_results(a.rec, b.rec)
    /\ r1' = a.rec
    /\ r2' = b.rec
    /\ read_pairs_checked' = read_pairs_checked + 1
    /\ r1i' = a.f
    /\ r2i' = b.f
    /\ UNCHANGED <<config, read_pairs_removed, read_pairs_remaining, r1o, r2o,
                   logged, ret_val, exit_status, pc>>

\* filter.c:248-252, 254-262
Exclude(a, b) ==
    /\ ~AtEnd(a, b)
    /\ FALSE \in check_results(a.rec, b.rec)
    /\ r1' = a.rec
    /\ r2' = b.rec
    /\ read_pairs_checked' = read_pairs_checked + 1
    /\ read_pairs_removed' = read_pairs_removed + 1
    /\ r1i' = a.f
    /\ r2i' = b.f
    /\ UNCHANGED <<config, read_pairs_remaining, r1o, r2o, logged, ret_val, exit_status, pc>>

(***************************************************************************)
(* The places where an iteration's behaviour is undefined and the process  *)
(* may be killed: strcmp with a NULL tile id (filter.c:133), fputs on a    *)
(* NULL output stream (filter.c:149), the store past the quality buffer    *)
(* (filter.c:161) with the damage found at once or by free (filter.c:257,  *)
(* 262), and fclose(NULL) (filter.c:236-237).                              *)
(***************************************************************************)
CrashSites(a, b) ==
    IF AtEnd(a, b)
    THEN IF ~r1o.open \/ ~r2o.open THEN {"fclose"} ELSE {}
    ELSE (IF check_func = "tile_check_read" /\ tile_check_undefined(a.rec, b.rec)
          THEN {"strcmp"} ELSE {})
         \cup
         (IF TRUE \in check_results(a.rec, b.rec)
          THEN (IF overflow_r1(a.rec) \/ ~r1o.open THEN {"include_r1"} ELSE {})
               \cup (IF overflow_r2(b.rec) \/ ~r2o.open THEN {"include_r2"} ELSE {})
               \cup (IF overflow_r1(a.rec) \/ overflow_r2(b.rec) THEN {"free"} ELSE {})
          ELSE {})

Killed(a, b, site) ==
    /\ r1' = a.rec
    /\ r2' = b.rec
    /\ r1i' = IF site = "fclose" THEN [a.f EXCEPT !.open = FALSE] ELSE a.f
    /\ r2i' = IF site = "fclose" THEN [b.f EXCEPT !.open = FALSE] ELSE b.f
    /\ logged' = IF site = "fclose" THEN LogDesync(a, b) ELSE logged
    /\ read_pairs_checked' =
           read_pairs_checked + IF site \in {"include_r1", "include_r2", "free"} THEN 1 ELSE 0
    /\ read_pairs_remaining' =
           read_pairs_remaining + IF site \in {"include_r1", "include_r2", "free"} THEN 1 ELSE 0
    /\ \E w \in (IF site \in {"include_r2", "free"}
                 THEN include_outcomes(a.rec, b.rec) ELSE {<<>>}) :
           /\ r1o' = IF site \in {"include_r2", "free"} THEN fputs(w[1], r1o)
                     ELSE IF site = "fclose" /\ r1o.open THEN [r1o EXCEPT !.open = FALSE]
                     ELSE r1o
           /\ r2o' = IF site = "free" THEN fputs(w[2], r2o) ELSE r2o
    /\ pc' = "crashed"
    /\ UNCHANGED <<config, read_pairs_removed, ret_val, exit_status>>

\* One pass of the while loop of filter_fastqs (filter.c:206-263): both
\* records are read (filter.c:207-215) before anything is decided.
LoopExit ==
    /\ pc = "loop"
    /\ \E a \in {read_record(r1i)}, b \in {read_record(r2i)} : Finish(a, b)

LoopInclude ==
    /\ pc = "loop"
    /\ \E a \in {read_record(r1i)}, b \in {read_record(r2i)} : Include(a, b)

LoopExclude ==
    /\ pc = "loop"
    /\ \E a \in {read_record(r1i)}, b \in {read_record(r2i)} : Exclude(a, b)

Crash ==
    /\ pc = "loop"
    /\ \E a \in {read_record(r1i)}, b \in {read_record(r2i)} :
           \E site \in CrashSites(a, b) : Killed(a, b, site)

\* filter.c:447-457: main returns what filter_fastqs returned
MainReturn ==
    /\ pc = "returned"
    /\ exit_status' = ret_val
    /\ pc' = "exited"
    /\ UNCHANGED <<config, counters, streams, r1, r2, logged, ret_val>>

Next ==
    \/ OpenStreams
    \/ LoopExit
    \/ LoopInclude
    \/ LoopExclude
    \/ Crash
    \/ MainReturn


(***************************************************************************)
(* The inputs: what main has set up from the command line when it calls    *)
(* filter_fastqs (filter.c:368-447), and the files behind the four paths.  *)
(***************************************************************************)
MaxRecs == 2
MaxSeq == 3
MaxThreshold == 3
MaxTrim == 6

NoOpt == [given |-> FALSE, v |-> 0]
Opt(v) == [given |-> TRUE, v |-> v]

\* Lines.  A header with the tile in its fifth field, one with an empty
\* second field, one whose fifth field is its last, and two with fewer than
\* five tokens.
HeaderTile(t) == <<"h", COLON, "h", COLON, "h", COLON, "h", COLON, t, COLON, "h", NL>>
HeaderEmptyField == <<"h", COLON, COLON, "h", COLON, "h", COLON, "7", COLON, "8", NL>>
HeaderTileLast == <<"h", COLON, "h", COLON, "h", COLON, "h", COLON, "7", NL>>
HeaderShort == <<"h", NL>>
HeaderColons == <<"h", COLON, COLON, COLON, COLON, NL>>
Headers == {HeaderTile("7"), HeaderTile("8"), HeaderEmptyField, HeaderTileLast,
            HeaderShort, HeaderColons}

SeqLine(n) == Rep("A", n) \o <<NL>>
QualLine(n) == Rep("I", n) \o <<NL>>
StrandLine == <<"+", NL>>

RecordLines(h, n, q) == <<h, SeqLine(n), StrandLine, QualLine(q)>>
GoodRecord == RecordLines(HeaderTile("7"), 2, 2)
BadRecord == RecordLines(HeaderTile("8"), 0, 0)
LongRecord == RecordLines(HeaderTile("7"), unsafe_block_size - 1, unsafe_block_size - 1)

\* the lines of the records named by kinds, one after the other
RECURSIVE RecordsOf(_)
RecordsOf(kinds) ==
    IF kinds = <<>> THEN <<>>
    ELSE (CASE Head(kinds) = "good" -> GoodRecord
            [] Head(kinds) = "bad" -> BadRecord
            [] OTHER -> LongRecord) \o RecordsOf(Tail(kinds))

\* a file without the terminator of its last line
Unterminated(data) == IF data = <<>> THEN data ELSE Take(data, Len(data) - 1)

File(data) == [readable |-> TRUE, data |-> data]

RemoveTilesArgs ==
    {NULLSTR, Ptr(<<>>), Ptr(<<"7">>), Ptr(<<"8">>), Ptr(<<"8", COMMA, "7">>)}

TrimArgs == {NoOpt} \cup {Opt(n) : n \in 0..MaxTrim}

Setup(f1, f2, w1, w2, th, q, rf, rm, t1, t2) ==
    /\ fs = [r1i |-> f1, r2i |-> f2, r1o_writable |-> w1, r2o_writable |-> w2]
    /\ threshold = th
    /\ quiet = q
    /\ read_func = rf
    /\ check_func = IF rm.null THEN "std_check_read" ELSE "tile_check_read"
    /\ tiles_to_remove = build_remove_tiles(rm)
    /\ include_func_r1 = IF t1.given THEN "trim_include_r1" ELSE "std_include"
    /\ include_func_r2 = IF t2.given THEN "trim_include_r2" ELSE "std_include"
    /\ trim_r1 = t1.v
    /\ trim_r2 = t2.v
    /\ read_pairs_checked = 0
    /\ read_pairs_removed = 0
    /\ read_pairs_remaining = 0
    /\ r1i = [open |-> FALSE, data |-> <<>>, pos |-> 0]
    /\ r2i = [open |-> FALSE, data |-> <<>>, pos |-> 0]
    /\ r1o = [open |-> FALSE, data |-> <<>>]
    /\ r2o = [open |-> FALSE, data |-> <<>>]
    /\ r1 = NoRecord
    /\ r2 = NoRecord
    /\ logged = <<>>
    /\ ret_val = -1
    /\ exit_status = -1
    /\ pc = "main"
    /\ first_run = NoRun

ReadFuncs == {"readln", "readln_unsafe"}

\* Streams of up to MaxRecs records, each kept or removed at threshold 1,
\* followed by the first 0 to 3 lines of one more record, with or without
\* the terminator of the last line.
SyncFiles ==
    { File(IF cut THEN Unterminated(Cat(lines)) ELSE Cat(lines)) :
        lines \in { RecordsOf(kinds) \o SubSeq(GoodRecord, 1, j) :
                      kinds \in UNION { [1..n -> {"good", "bad"}] : n \in 0..MaxRecs },
                      j \in 0..3 },
        cut \in BOOLEAN }

InitSync ==
    \E f1 \in SyncFiles, f2 \in SyncFiles, rf \in ReadFuncs :
        Setup(f1, f2, TRUE, TRUE, 1, FALSE, rf, NULLSTR, NoOpt, NoOpt)

\* Streams of up to MaxRecs whole records, some with lines longer than the
\* fixed buffer.
LongFiles ==
    { File(Cat(RecordsOf(kinds))) :
        kinds \in UNION { [1..n -> {"good", "long"}] : n \in 0..MaxRecs } }

InitLong ==
    \E f1 \in LongFiles, f2 \in LongFiles, rf \in ReadFuncs, q \in BOOLEAN :
        Setup(f1, f2, TRUE, TRUE, 1, q, rf, NULLSTR, NoOpt, NoOpt)

\* One pair: every header, every sequence length up to MaxSeq for each
\* mate, mate 1's stream ending with or without the rest of the record
\* after the sequence, every threshold and tile list.
InitPolicy ==
    \E h \in Headers, a \in 0..MaxSeq, b \in 0..MaxSeq, cut \in BOOLEAN,
       th \in 0..MaxThreshold, rm \in RemoveTilesArgs, rf \in ReadFuncs :
        Setup(File(IF cut THEN h \o Rep("A", a) ELSE Cat(RecordLines(h, a, a))),
              File(Cat(RecordLines(HeaderTile("7"), b, b))),
              TRUE, TRUE, th, FALSE, rf, rm, NoOpt, NoOpt)

\* One pair: sequence and quality lines of independent lengths, short ones
\* and ones of several chunks, the stream ending with or inside the record,
\* and every trim length up to MaxTrim.
TrimLens == (0..MaxSeq) \cup {2 * block_size + 1, unsafe_block_size - 1}

\* the record whole, without the terminator of its last line, or ending
\* with the residues of its sequence line
TrimFile(a, q, ending) ==
    File(CASE ending = "whole" -> Cat(RecordLines(HeaderTile("7"), a, q))
           [] ending = "unterminated" ->
                  Unterminated(Cat(RecordLines(HeaderTile("7"), a, q)))
           [] OTHER -> HeaderTile("7") \o Rep("A", a))

InitTrim ==
    \E a \in TrimLens, q \in TrimLens,
       ending \in {"whole", "unterminated", "sequence"},
       t1 \in TrimArgs, t2 \in {NoOpt, Opt(1)}, rf \in ReadFuncs :
        Setup(TrimFile(a, q, ending), File(Cat(GoodRecord)),
              TRUE, TRUE, 0, FALSE, rf, NULLSTR, t1, t2)

\* Paths that cannot be opened.
OpenFiles ==
    { [readable |-> ok, data |-> IF ok THEN Cat(RecordsOf(kinds)) ELSE <<>>] :
        ok \in BOOLEAN, kinds \in {<<>>, <<"good">>, <<"bad">>} }

InitOpen ==
    \E f1 \in OpenFiles, f2 \in OpenFiles, w1 \in BOOLEAN, w2 \in BOOLEAN,
       rf \in ReadFuncs, q \in BOOLEAN :
        Setup(f1, f2, w1, w2, 1, q, rf, NULLSTR, NoOpt, NoOpt)

Init == InitSync \/ InitLong \/ InitPolicy \/ InitTrim \/ InitOpen

Spec == Init /\ [][Next]_vars


(***************************************************************************)
(* What the properties are stated in: the input files cut into lines       *)
(* without reference to the readers above.                                 *)
(***************************************************************************)
\* the physical lines of a file, each with its terminator (the last one
\* without, if the file does not end in one)
RECURSIVE PhysicalLines(_)
PhysicalLines(data) ==
    IF data = <<>> THEN <<>>
    ELSE LET ends == {i \in 1..Len(data) : data[i] = NL}
             k == IF ends = {} THEN Len(data)
                  ELSE CHOOSE i \in ends : \A j \in ends : i <= j
         IN  <<Take(data, k)>> \o PhysicalLines(Drop(data, k))

\* a physical line in pieces of at most w characters
RECURSIVE Pieces(_, _)
Pieces(line, w) ==
    IF Len(line) <= w THEN <<line>>
    ELSE <<Take(line, w)>> \o Pieces(Drop(line, w), w)

RECURSIVE PiecesOfAll(_, _)
PiecesOfAll(lines, w) ==
    IF lines = <<>> THEN <<>>
    ELSE Pieces(Head(lines), w) \o PiecesOfAll(Tail(lines), w)

\* the strings the successive read_line calls on a file are to return
\* before the end-of-stream sentinel: its physical lines, in fixed-buffer
\* mode in pieces that fit the buffer
LinesRead(file) ==
    IF ~file.readable THEN <<>>
    ELSE IF read_func = "readln" THEN PhysicalLines(file.data)
    ELSE PiecesOfAll(PhysicalLines(file.data), unsafe_block_size - 1)

NthLine(lines, i) == IF i \in 1..Len(lines) THEN lines[i] ELSE <<>>

\* the lines of the record at ordinal position i (1, 2, ...) of a file
RecordAt(lines, i) ==
    [header |-> [s |-> NthLine(lines, 4 * i - 3), cap |-> 0],
     seq    |-> [s |-> NthLine(lines, 4 * i - 2), cap |-> 0],
     strand |-> [s |-> NthLine(lines, 4 * i - 1), cap |-> 0],
     qual   |-> [s |-> NthLine(lines, 4 * i), cap |-> 0]]

\* a file of whole 4-line records, every line terminated
WholeRecords(file) ==
    /\ file.readable
    /\ Len(PhysicalLines(file.data)) % 4 = 0
    /\ (file.data # <<>> => file.data[Len(file.data)] = NL)

RecordCount(file) == Len(PhysicalLines(file.data)) \div 4

AllOpened ==
    fs.r1i.readable /\ fs.r2i.readable /\ fs.r1o_writable /\ fs.r2o_writable

Returned == pc \in {"returned", "exited"}
Ended == pc \in {"returned", "exited", "crashed"}

\* the configured inclusion predicate, where it is defined
PolicyHolds(a, b) ==
    IF check_func = "std_check_read" THEN std_check_read(a, b)
    ELSE tile_check_read(a, b)

PositionsKept ==
    {i \in 1..RecordCount(fs.r1i) :
        PolicyHolds(RecordAt(PhysicalLines(fs.r1i.data), i),
                    RecordAt(PhysicalLines(fs.r2i.data), i))}

(***************************************************************************)
(* C1.  Two streams of m and n whole records, m # n: the run ends in       *)
(* Done(desync), returning 1, with read_pairs_checked = min(m, n), under   *)
(* every threshold, tile list, trim setting and buffer mode.               *)
(***************************************************************************)
C1_DesyncAfterMinPairs ==
    (/\ Ended
     /\ AllOpened
     /\ WholeRecords(fs.r1i)
     /\ WholeRecords(fs.r2i)
     /\ RecordCount(fs.r1i) # RecordCount(fs.r2i))
    => /\ Returned
       /\ ret_val = 1
       /\ read_pairs_checked = Min(RecordCount(fs.r1i), RecordCount(fs.r2i))
       /\ read_pairs_checked = read_pairs_removed + read_pairs_remaining

(***************************************************************************)
(* C2.  Two streams of n whole records each: the run ends in               *)
(* Done(success), returning 0, with read_pairs_checked = n,                *)
(* read_pairs_remaining the number of positions whose pair satisfies the   *)
(* inclusion predicate and read_pairs_removed the number of the others.    *)
(***************************************************************************)
C2_SuccessCounts ==
    (/\ Ended
     /\ AllOpened
     /\ WholeRecords(fs.r1i)
     /\ WholeRecords(fs.r2i)
     /\ RecordCount(fs.r1i) = RecordCount(fs.r2i))
    => /\ Returned
       /\ ret_val = 0
       /\ read_pairs_checked = RecordCount(fs.r1i)
       /\ read_pairs_remaining = Cardinality(PositionsKept)
       /\ read_pairs_removed = RecordCount(fs.r1i) - Cardinality(PositionsKept)

(***************************************************************************)
(* C3.  The counters start at 0; checked = removed + remaining in every    *)
(* state; no counter ever decreases; a pass of the loop that classifies a  *)
(* pair raises checked by 1 and exactly one of removed and remaining by 1; *)
(* the pass that ends the run, and everything after it, leaves the         *)
(* counters alone.                                                         *)
(***************************************************************************)
CountersZero ==
    read_pairs_checked = 0 /\ read_pairs_removed = 0 /\ read_pairs_remaining = 0

CountersStep ==
    /\ read_pairs_checked' = read_pairs_removed' + read_pairs_remaining'
    /\ read_pairs_checked' >= read_pairs_checked
    /\ read_pairs_removed' >= read_pairs_removed
    /\ read_pairs_remaining' >= read_pairs_remaining
    /\ (pc = "loop" /\ pc' = "loop")
           => /\ read_pairs_checked' = read_pairs_checked + 1
              /\ \/ /\ read_pairs_removed' = read_pairs_removed + 1
                    /\ read_pairs_remaining' = read_pairs_remaining
                 \/ /\ read_pairs_removed' = read_pairs_removed
                    /\ read_pairs_remaining' = read_pairs_remaining + 1
    /\ (pc # "loop" \/ pc' = "returned") => UNCHANGED counters

C3_Counters == CountersZero /\ [][CountersStep]_vars

C3_Witness ==
    /\ pc = "returned"
    /\ read_pairs_removed >= 1
    /\ read_pairs_remaining >= 1


(***************************************************************************)
(* Steps of the loop, and the lines the current pass is to read.           *)
(***************************************************************************)
\* a pass that classifies a pair
ClassifyStep == pc = "loop" /\ read_pairs_checked' = read_pairs_checked + 1

\* a pass that keeps the pair
KeptStep == pc = "loop" /\ read_pairs_remaining' = read_pairs_remaining + 1

\* the records at the ordinal position the next pass reads
NextRecord1 == RecordAt(LinesRead(fs.r1i), read_pairs_checked + 1)
NextRecord2 == RecordAt(LinesRead(fs.r2i), read_pairs_checked + 1)

\* the characters of a line other than the terminator
Residues(line) == Cardinality({i \in 1..Len(line) : line[i] # NL})

(***************************************************************************)
(* C4.  Under std_check_read a pair is kept iff each mate's sequence has   *)
(* more than threshold residues: a pair with a sequence of exactly         *)
(* threshold residues is discarded.                                        *)
(***************************************************************************)
C4_ResiduesDecide ==
    [][(ClassifyStep /\ check_func = "std_check_read")
          => (KeptStep <=> /\ Residues(NextRecord1.seq.s) > threshold
                           /\ Residues(NextRecord2.seq.s) > threshold)]_vars

(***************************************************************************)
(* C5.  Every pass that does not kill the process appends to each output   *)
(* stream the transformed record of its mate if the pair is kept and       *)
(* nothing otherwise; with std_include the bytes appended are the four     *)
(* lines of the record as they stand in the input.                         *)
(***************************************************************************)
RecordBytes(rec) == Cat(<<rec.header.s, rec.seq.s, rec.strand.s, rec.qual.s>>)

Transformed1 ==
    IF include_func_r1 = "std_include" THEN RecordBytes(NextRecord1)
    ELSE RecordBytes(trim_record(NextRecord1, trim_r1))

Transformed2 ==
    IF include_func_r2 = "std_include" THEN RecordBytes(NextRecord2)
    ELSE RecordBytes(trim_record(NextRecord2, trim_r2))

C5_OutputsAreKeptRecords ==
    [][(pc = "loop" /\ pc' # "crashed")
          => /\ r1o.open =>
                  r1o'.data = r1o.data \o (IF KeptStep THEN Transformed1 ELSE <<>>)
             /\ r2o.open =>
                  r2o'.data = r2o.data \o (IF KeptStep THEN Transformed2 ELSE <<>>)]_vars

(***************************************************************************)
(* C6.  Under tile_check_read, for a mate-1 header of at least 5           *)
(* colon-delimited fields, empty ones counted: the pair is kept iff        *)
(* std_check_read holds and the field at position 4 (from 0) of the header *)
(* split on ':' is no member of the tile list.                             *)
(***************************************************************************)
RECURSIVE SplitOn(_, _)
SplitOn(s, d) ==
    LET at == {i \in 1..Len(s) : s[i] = d}
    IN  IF at = {} THEN <<s>>
        ELSE LET k == CHOOSE i \in at : \A j \in at : i <= j
             IN  <<Take(s, k - 1)>> \o SplitOn(Drop(s, k), d)

C6_FifthFieldDecides ==
    [][(/\ pc = "loop"
        /\ check_func = "tile_check_read"
        /\ NextRecord1.header.s # <<>>
        /\ NextRecord2.header.s # <<>>
        /\ Len(SplitOn(NextRecord1.header.s, COLON)) >= 5)
          => /\ ClassifyStep
             /\ pc' = "loop"
             /\ KeptStep <=>
                  /\ Len(NextRecord1.seq.s) > threshold
                  /\ Len(NextRecord2.seq.s) > threshold
                  /\ \A i \in 1..Len(tiles_to_remove) :
                         tiles_to_remove[i] # SplitOn(NextRecord1.header.s, COLON)[5]]_vars

(***************************************************************************)
(* C7.  A kept record written through _trim_include with trim length len:  *)
(* if the sequence line is longer than len + 1 characters, the sequence    *)
(* and the quality are written as their first len characters and a         *)
(* terminator, otherwise as they are; header and strand as they are.       *)
(***************************************************************************)
TruncatedAsClaimed(rec, len) ==
    IF Len(rec.seq.s) > len + 1
    THEN Cat(<<rec.header.s, Take(rec.seq.s, len), <<NL>>,
               rec.strand.s, Take(rec.qual.s, len), <<NL>>>>)
    ELSE RecordBytes(rec)

C7_TruncateWritten ==
    [][KeptStep
          => /\ (include_func_r1 = "trim_include_r1" /\ r1o.open) =>
                  r1o'.data = r1o.data \o TruncatedAsClaimed(NextRecord1, trim_r1)
             /\ (include_func_r2 = "trim_include_r2" /\ r2o.open) =>
                  r2o'.data = r2o.data \o TruncatedAsClaimed(NextRecord2, trim_r2)]_vars

(***************************************************************************)
(* C8.  Whenever filter_fastqs returns on two streams of different numbers *)
(* of physical lines, a last record of 1 to 3 lines included, it returns   *)
(* 1; it returns 0 only on streams of the same number of lines.            *)
(***************************************************************************)
C8_LineCountsDecide ==
    (/\ Returned
     /\ fs.r1i.readable
     /\ fs.r2i.readable
     /\ Len(PhysicalLines(fs.r1i.data)) # Len(PhysicalLines(fs.r2i.data)))
    => ret_val = 1

(***************************************************************************)
(* C9.  The exit status is what filter_fastqs returned; it is not 0 when   *)
(* one of the four streams could not be opened, and then no pair is        *)
(* processed.                                                              *)
(***************************************************************************)
C9_ExitStatus ==
    /\ pc = "exited" => exit_status = ret_val
    /\ (pc = "exited" /\ ~AllOpened) => exit_status # 0
    /\ ~AllOpened => read_pairs_checked = 0

(***************************************************************************)
(* C10.  In fixed-buffer mode every read_line call consumes one physical   *)
(* line: after k passes each stream stands at the start of its physical    *)
(* line 4k, and each buffer of the last record read holds the leading part *)
(* of its physical line that fits.                                         *)
(***************************************************************************)
LineStart(data, n) == Len(Cat(Take(PhysicalLines(data), n)))

LeadingParts(data, k) ==
    RecordAt([i \in 1..Len(PhysicalLines(data)) |->
                 Take(PhysicalLines(data)[i], unsafe_block_size - 1)], k)

Strings(rec) == <<rec.header.s, rec.seq.s, rec.strand.s, rec.qual.s>>

C10_OneLinePerRead ==
    (read_func = "readln_unsafe" /\ pc = "loop")
    => /\ r1i.open =>
            /\ r1i.pos = LineStart(r1i.data, 4 * read_pairs_checked)
            /\ read_pairs_checked >= 1 =>
                   Strings(r1) = Strings(LeadingParts(r1i.data, read_pairs_checked))
       /\ r2i.open =>
            /\ r2i.pos = LineStart(r2i.data, 4 * read_pairs_checked)
            /\ read_pairs_checked >= 1 =>
                   Strings(r2) = Strings(LeadingParts(r2i.data, read_pairs_checked))

(***************************************************************************)
(* C11.  In growable mode every readln call returns the whole next         *)
(* physical line, terminator included, or the whole unterminated rest of   *)
(* the stream, or the empty string once the stream is exhausted: after     *)
(* each pass the four buffers of a mate hold the four physical lines of    *)
(* the record just read, the stream stands right behind them, and each     *)
(* string with its '\0' fits the bytes allocated for it.                   *)
(***************************************************************************)
\* the ordinal position of the record the buffers hold
LastRead == IF pc = "loop" THEN read_pairs_checked ELSE read_pairs_checked + 1

Fits(rec) == \A f \in Fields : Len(rec[f].s) + 1 <= rec[f].cap

WholeLinesRead(f, data, rec) ==
    /\ Strings(rec) = Strings(RecordAt(PhysicalLines(data), LastRead))
    /\ f.pos = LineStart(data, 4 * LastRead)
    /\ Fits(rec)

C11_WholeLines ==
    (/\ read_func = "readln"
     /\ pc \in {"loop", "returned", "exited"}
     /\ LastRead >= 1)
    => /\ fs.r1i.readable => WholeLinesRead(r1i, fs.r1i.data, r1)
       /\ fs.r2i.readable => WholeLinesRead(r2i, fs.r2i.data, r2)

\* a sequence line of several chunks and an unterminated last line, both read
C11_Witness ==
    /\ read_func = "readln"
    /\ pc = "loop"
    /\ read_pairs_checked = 1
    /\ Len(r1.seq.s) > 2 * block_size
    /\ r1.qual.s # <<>>
    /\ r1.qual.s[Len(r1.qual.s)] # NL

(***************************************************************************)
(* C12.  With an empty tile list tile_check_read answers as std_check_read *)
(* does, whatever the mate-1 header: every pass that reads a pair          *)
(* classifies it, keeps it iff std_check_read holds of it, and is not      *)
(* killed by the tile comparison.                                          *)
(***************************************************************************)
NoTrim == include_func_r1 = "std_include" /\ include_func_r2 = "std_include"

C12_EmptyTileList ==
    [][(/\ pc = "loop"
        /\ check_func = "tile_check_read"
        /\ tiles_to_remove = <<>>
        /\ NextRecord1.header.s # <<>>
        /\ NextRecord2.header.s # <<>>)
          => /\ (AllOpened /\ NoTrim) => pc' = "loop"
             /\ pc' = "loop" =>
                    /\ ClassifyStep
                    /\ KeptStep <=> std_check_read(NextRecord1, NextRecord2)]_vars

\* a pair kept under an empty tile list though its header has no tile id
C12_Witness ==
    /\ check_func = "tile_check_read"
    /\ tiles_to_remove = <<>>
    /\ read_pairs_remaining = 1
    /\ get_tile_id(r1.header.s).null

(***************************************************************************)
(* Filtering again.  The program is started a second time, with the        *)
(* options of the first run, on the two files a successful first run       *)
(* wrote; the second run's output paths can be opened.                     *)
(***************************************************************************)
Rerun ==
    /\ pc = "exited"
    /\ exit_status = 0
    /\ ~first_run.done
    /\ fs.r1o_writable
    /\ fs.r2o_writable
    /\ first_run' = [done |-> TRUE, removed |-> read_pairs_removed,
                     remaining |-> read_pairs_remaining]
    /\ fs' = [r1i |-> File(r1o.data), r2i |-> File(r2o.data),
              r1o_writable |-> TRUE, r2o_writable |-> TRUE]
    /\ read_pairs_checked' = 0
    /\ read_pairs_removed' = 0
    /\ read_pairs_remaining' = 0
    /\ r1i' = [open |-> FALSE, data |-> <<>>, pos |-> 0]
    /\ r2i' = [open |-> FALSE, data |-> <<>>, pos |-> 0]
    /\ r1o' = [open |-> FALSE, data |-> <<>>]
    /\ r2o' = [open |-> FALSE, data |-> <<>>]
    /\ r1' = NoRecord
    /\ r2' = NoRecord
    /\ logged' = <<>>
    /\ ret_val' = -1
    /\ exit_status' = -1
    /\ pc' = "main"
    /\ UNCHANGED options

NextRefilter == Next \/ Rerun

\* Two pairs, the first with sequences of every length up to MaxSeq, under
\* every threshold, mate 1 trimmed or not.
InitRefilter ==
    \E a \in 0..MaxSeq, b \in 0..MaxSeq, th \in 0..MaxThreshold,
       t1 \in {NoOpt} \cup {Opt(n) : n \in 0..MaxSeq}, rf \in ReadFuncs :
        Setup(File(Cat(RecordLines(HeaderTile("7"), a, a) \o GoodRecord)),
              File(Cat(RecordLines(HeaderTile("7"), b, b) \o GoodRecord)),
              TRUE, TRUE, th, FALSE, rf, NULLSTR, t1, NoOpt)

InitFirstRun == InitSync \/ InitLong \/ InitOpen \/ InitRefilter

SpecRefilter == InitFirstRun /\ [][NextRefilter]_vars

(***************************************************************************)
(* C13 (as amended).  With no tile list and no trim length, a second run   *)
(* on the output files of a successful first run, under the same threshold *)
(* and reader, returns 0 having removed no pair and kept as many as the    *)
(* first run kept.                                                         *)
(***************************************************************************)
KeepsAll ==
    /\ Returned
    /\ ret_val = 0
    /\ read_pairs_removed = 0
    /\ read_pairs_remaining = first_run.remaining

C14_ShortHeaderClassified ==
    [][(/\ pc = "loop"
        /\ check_func = "tile_check_read"
        /\ tiles_to_remove # <<>>
        /\ NextRecord1.header.s # <<>>
        /\ NextRecord2.header.s # <<>>
        /\ std_check_read(NextRecord1, NextRecord2)
        /\ Len(SplitOn(NextRecord1.header.s, COLON)) < 5)
          => /\ pc' = "loop"
             /\ ClassifyStep
             /\ read_pairs_removed' + read_pairs_remaining'
                    = read_pairs_removed + read_pairs_remaining + 1]_vars

(***************************************************************************)
(* C15.  Whenever filter_fastqs returns 1, under every configuration, it   *)
(* has reported the mismatch once, with line offset checked * 4, and has   *)
(* closed both input streams and both output streams.                      *)
(***************************************************************************)
C15_DesyncReported ==
    (Returned /\ ret_val = 1)
        => /\ logged = <<read_pairs_checked * 4>>
           /\ ~r1i.open /\ ~r2i.open /\ ~r1o.open /\ ~r2o.open

(***************************************************************************)
(* C16.  The loop of filter_fastqs is left only by a return, and by a      *)
(* return exactly in the pass in which the header read of at least one     *)
(* mate gives the empty string: every other pass stays in the loop.        *)
(***************************************************************************)
C16_OnlyDoneExits ==
    [][pc = "loop"
          => /\ pc' \in {"loop", "returned"}
             /\ pc' = "returned" <=> \/ NextRecord1.header.s = <<>>
                                     \/ NextRecord2.header.s = <<>>]_vars

(***************************************************************************)
(* C17.  A mate for which no trim length is configured has every kept      *)
(* record written as it was read, whatever trim length the other mate has. *)
(***************************************************************************)
C17_OtherMateUnchanged ==
    [][(KeptStep /\ pc' = "loop")
          => /\ (include_func_r1 = "std_include" /\ r1o.open) =>
                  r1o'.data = r1o.data \o RecordBytes(NextRecord1)
             /\ (include_func_r2 = "std_include" /\ r2o.open) =>
                  r2o'.data = r2o.data \o RecordBytes(NextRecord2)]_vars

(***************************************************************************)
(* C18.  At every loop boundary and after the return, the two output       *)
(* files hold the records of the same ordinal positions of their input     *)
(* files, one record for each pair counted in read_pairs_remaining: there  *)
(* is a set K of positions read so far, of read_pairs_remaining elements,  *)
(* such that output k is the mate-k records at the positions of K, in      *)
(* order, each as its include function writes it.                          *)
(***************************************************************************)
Written1(i) ==
    LET rec == RecordAt(PhysicalLines(fs.r1i.data), i)
    IN  RecordBytes(IF include_func_r1 = "std_include" THEN rec
                    ELSE trim_record(rec, trim_r1))

Written2(i) ==
    LET rec == RecordAt(PhysicalLines(fs.r2i.data), i)
    IN  RecordBytes(IF include_func_r2 = "std_include" THEN rec
                    ELSE trim_record(rec, trim_r2))

C18_OutputsPaired ==
    pc \in {"loop", "returned", "exited"}
        => \E K \in SUBSET (1..read_pairs_checked) :
               /\ Cardinality(K) = read_pairs_remaining
               /\ r1o.data = Cat([i \in 1..read_pairs_checked |->
                                     IF i \in K THEN Written1(i) ELSE <<>>])
               /\ r2o.data = Cat([i \in 1..read_pairs_checked |->
                                     IF i \in K THEN Written2(i) ELSE <<>>])

(***************************************************************************)
(* C19.  With a trim length configured for a mate, the sequence line of    *)
(* every record written to that mate's output has at most that many        *)
(* residues, also when the line has no terminator.                         *)
(***************************************************************************)
\* the second line of the bytes a pass appends to an output
SeqLineAppended(before, after) ==
    NthLine(PhysicalLines(Drop(after, Len(before))), 2)

C19_TrimmedResidues ==
    [][(KeptStep /\ pc' = "loop")
          => /\ (include_func_r1 = "trim_include_r1" /\ r1o.open) =>
                  Residues(SeqLineAppended(r1o.data, r1o'.data)) <= trim_r1
             /\ (include_func_r2 = "trim_include_r2" /\ r2o.open) =>
                  Residues(SeqLineAppended(r2o.data, r2o'.data)) <= trim_r2]_vars

====
